---- MODULE Spec2Model ----
(***************************************************************************)
(* A model of two PINT timing-model components:                            *)
(*   JumpDelay            (src/pint/models/jump.py)                        *)
(*   SolarWindDispersion  (src/src/pint/models/solar_wind_dispersion.py)   *)
(* One model object is instantiated (variable component); the operations   *)
(* of its class are the actions.  Floating-point values of the solar-wind  *)
(* component are IEEE-like values: finite fixed-point numbers, +-inf, NaN. *)
(***************************************************************************)
EXTENDS Integers, Sequences, FiniteSets, TLC

VARIABLES
    component,       \* class of the instantiated model object
    param_register,  \* self.param_register['maskParameter']: ordered names
    mask_params,     \* name -> mask parameter object (value, selection rule)
    jumps,           \* self.jumps (meaningful only when hasJumps)
    hasJumps,        \* whether the attribute self.jumps exists
    regAtSetup,      \* history: param_register as it was at the last setup
    phase,           \* history: "constructed" until the first setup, then "setup"
    pipelines,       \* delay_funcs['L2'], dm_value_funcs, delay_funcs_component
    toas,            \* the observation batch handed to evaluations
    SWM,             \* self.SWM.value
    NE_SW,           \* self.NE_SW.value
    bary_avail,      \* whether self.barycentric_radio_freq can be computed
    deriv_funcs,     \* name -> registered delay-derivative callable
    dm_deriv_funcs,  \* name -> registered DM-derivative callable
    result,          \* outcome of the last operation
    lastOp,          \* history: name of the last operation
    lastArg,         \* history: parameter name the last operation was about
    streak           \* history: 1, or 2 when the last operation repeats its predecessor

vars == <<component, param_register, mask_params, jumps, hasJumps, regAtSetup,
          phase, pipelines, toas, SWM, NE_SW, bary_avail, deriv_funcs,
          dm_deriv_funcs, result, lastOp, lastArg, streak>>

\* ------------------------------------------------------------------ bounds

MaxN == 2

\* ------------------------------------------------- program constants (scaled)

\* const.au, in model length units
AU == 5
\* DMconst of pint.models.dispersion_model, in model units
DMconst == 100
\* factor of the conversion to pc / cm^3, in model units
PcCm3Factor == 2
\* 1.0 * u.MHz, frequencies being in units of 0.1 MHz
CutoffFreq == 10

\* ------------------------------------------------------------- IEEE values

Fin(n) == [k |-> "fin", v |-> n]
NaN == [k |-> "nan", v |-> 0]
Inf(s) == [k |-> "inf", v |-> s]
Zero == Fin(0)

Sign(n) == IF n < 0 THEN -1 ELSE 1

Abs(n) == IF n < 0 THEN -n ELSE n

FMul(a, b) ==
    IF a.k = "nan" \/ b.k = "nan" THEN NaN
    ELSE IF a.k = "inf" \/ b.k = "inf"
         THEN IF a.v = 0 \/ b.v = 0 THEN NaN ELSE Inf(Sign(a.v) * Sign(b.v))
         ELSE Fin(a.v * b.v)

FDiv(a, b) ==
    IF a.k = "nan" \/ b.k = "nan" THEN NaN
    ELSE IF a.k = "inf"
         THEN IF b.k = "inf" THEN NaN ELSE Inf(Sign(a.v) * Sign(b.v))
         ELSE IF b.k = "inf" THEN Zero
              ELSE IF b.v = 0
                   THEN IF a.v = 0 THEN NaN ELSE Inf(Sign(a.v))
                   ELSE Fin(Sign(a.v) * Sign(b.v) * (Abs(a.v) \div Abs(b.v)))

\* floor of the square root of a natural number
ISqrt(n) == CHOOSE k \in 0..n : k * k <= n /\ (k + 1) * (k + 1) > n

\* ----------------------------------------------------------------- results

NoResult == [kind |-> "none", val |-> <<>>, err |-> "", warned |-> 0]
Vector(v, w) == [kind |-> "vector", val |-> v, err |-> "", warned |-> w]
Error(e, w) == [kind |-> "error", val |-> <<>>, err |-> e, warned |-> w]

\* ------------------------------------------------------------------- names

JUMP == <<"J", "U", "M", "P">>
JUMP1 == JUMP \o <<"1">>
JUMP2 == JUMP \o <<"2">>
EFAC1 == <<"E", "F", "A", "C", "1">>

MaskNames == {JUMP1, JUMP2, EFAC1}

\* str.startswith
startswith(s, prefix) ==
    Len(s) >= Len(prefix) /\ SubSeq(s, 1, Len(prefix)) = prefix

\* ------------------------------------------------------------ observations

MJDs == {1, 2}
JumpValues == {2, -3}
\* selection rules: a range [lo, hi] of timestamps; <<3, 3>> matches no MJD
Ranges == {<<1, 1>>, <<1, 2>>, <<3, 3>>}

Obs(m, f, bf, rv, p) == [mjd |-> m, freq |-> f, bfreq |-> bf, rvec |-> rv, pos |-> p]

\* observations handed to a JumpDelay: only the timestamp varies
JumpObs == {Obs(m, 20, 20, <<3, 4>>, <<1, 0>>) : m \in MJDs}

\* observations handed to a SolarWindDispersion (frequencies in 0.1 MHz,
\* positions in model length units, AU = 5)
SWObs ==
    { Obs(1, 20, 20, <<3, 4>>, <<1, 0>>),    \* 2 MHz, ordinary geometry
      Obs(1, 6, 5, <<0, 5>>, <<1, 0>>),      \* 0.5 MHz barycentric, theta = pi/2
      Obs(1, 10, 10, <<4, 3>>, <<1, 0>>),    \* exactly 1 MHz
      Obs(1, 20, 20, <<5, 0>>, <<1, 0>>),    \* theta = 0
      Obs(1, 5, 0, <<-5, 0>>, <<1, 0>>) }    \* theta = pi, zero barycentric frequency


\* --------------------------------------------------------------- JumpDelay

MaskParam(v, rng) == [value |-> v, lo |-> rng[1], hi |-> rng[2]]

\* the parameter object a component other than JumpDelay registers
OtherParam == MaskParam(2, <<1, 2>>)

\* maskParameter.select_toa_mask: the observations the selection rule matches
select_toa_mask(par, t) ==
    {i \in 1..Len(t) : par.lo <= t[i].mjd /\ t[i].mjd <= par.hi}

\* numpy.zeros(n)
numpy_empty(n) == [i \in 1..n |-> 1]
numpy_zeros(n) == [i \in 1..n |-> 0]

\* jdelay[mask] += -jump_par.value, at one selected index
accumulate_assign(old, value) == -value
accumulate(old, value) == old + (-value)

\* the loop of jump_delay over self.jumps[k..]
RECURSIVE jump_loop(_, _, _, _, _)
jump_loop(jdelay, k, js, params, t) ==
    IF k > Len(js) THEN jdelay
    ELSE LET jump_par == params[js[k]]
             mask == select_toa_mask(jump_par, t)
         IN jump_loop([i \in 1..Len(jdelay) |->
                          IF i \in mask THEN accumulate(jdelay[i], jump_par.value)
                          ELSE jdelay[i]],
                      k + 1, js, params, t)

\* the objects jump_delay can reach
JumpHeap == [jumps |-> jumps, hasJumps |-> hasJumps,
             mask_params |-> mask_params, toas |-> toas]

\* a variant that flips the sign of each parameter in place
jump_delay_inplace(h) ==
    IF ~h.hasJumps THEN [ret |-> Error("AttributeError", 0), heap |-> h]
    ELSE [ret |-> Vector(jump_loop(numpy_zeros(Len(h.toas)), 1, h.jumps,
                                   h.mask_params, h.toas), 0),
          heap |-> [h EXCEPT !.mask_params =
                       [n \in DOMAIN h.mask_params |->
                           IF \E k \in 1..Len(h.jumps) : h.jumps[k] = n
                           THEN [h.mask_params[n] EXCEPT !.value = -(h.mask_params[n].value)]
                           ELSE h.mask_params[n]]]]
\* a variant that sizes the vector by the number of jumps
jump_delay_len_jumps(h) ==
    IF ~h.hasJumps THEN [ret |-> Error("AttributeError", 0), heap |-> h]
    ELSE [ret |-> Vector(jump_loop(numpy_zeros(Len(h.jumps)), 1, h.jumps,
                                   h.mask_params, h.toas), 0),
          heap |-> h]
\* JumpDelay.jump_delay: the returned value and the objects as it leaves them
jump_delay(h) ==
    IF ~h.hasJumps THEN [ret |-> Error("AttributeError", 0), heap |-> h]
    ELSE [ret |-> Vector(jump_loop(numpy_zeros(Len(h.toas)), 1, h.jumps,
                                   h.mask_params, h.toas), 0),
          heap |-> h]

\* the loop of setup over param_register[k..], appending to acc
RECURSIVE setup_loop(_, _, _)
setup_loop(acc, k, reg) ==
    IF k > Len(reg) THEN acc
    ELSE setup_loop(IF startswith(reg[k], JUMP) THEN Append(acc, reg[k]) ELSE acc,
                    k + 1, reg)

\* a variant that does not reset self.jumps
setup_jumps_no_reset(old, had, reg) == setup_loop(IF had THEN old ELSE <<>>, 1, reg)
\* JumpDelay.setup: the new value of self.jumps
setup_jumps(old, had, reg) == setup_loop(<<>>, 1, reg)

\* ----------------------------------------------------- SolarWindDispersion

\* np.arccos of the ratio num/den, in milliradians; NaN outside [-1, 1]
ArcCos(num, den) ==
    IF num = den THEN Fin(0)
    ELSE IF 5 * num = 4 * den THEN Fin(644)
    ELSE IF 5 * num = 3 * den THEN Fin(927)
    ELSE IF num = 0 THEN Fin(1571)
    ELSE IF 5 * num = -3 * den THEN Fin(2214)
    ELSE IF 5 * num = -4 * den THEN Fin(2498)
    ELSE IF num = -den THEN Fin(3142)
    ELSE NaN

\* solar_wind_geometry for one observation:
\* const.au ** 2.0 * theta / (r * np.sqrt(1.0 - cos_theta ** 2.0)),
\* with cos_theta = (rvec . pos) / r kept as the ratio dot / r
geometry_at(o) ==
    LET r == ISqrt(o.rvec[1] * o.rvec[1] + o.rvec[2] * o.rvec[2])
        dot == o.rvec[1] * o.pos[1] + o.rvec[2] * o.pos[2]
    IN IF r = 0 THEN NaN
       ELSE LET theta == ArcCos(dot, r)
                \* r * sqrt(1 - cos^2) = sqrt(r^2 - dot^2)
                rsin == ISqrt(r * r - dot * dot)
            IN FDiv(FMul(Fin(AU * AU), theta), Fin(rsin))

\* SolarWindDispersion.solar_wind_geometry
solar_wind_geometry(t) == [i \in 1..Len(t) |-> geometry_at(t[i])]

\* Quantity.to(u.pc / u.cm ** 3): a rescaling
to_pc_cm3(x) == FMul(x, Fin(PcCm3Factor))

\* the model-selector test of solar_wind_dm and d_dm_d_ne_sw
swm_regime_implemented(swm) == swm = 0

\* SolarWindDispersion.solar_wind_dm
solar_wind_dm(swm, ne_sw, t) ==
    IF swm_regime_implemented(swm)
    THEN LET g == solar_wind_geometry(t)
         IN Vector([i \in 1..Len(t) |-> to_pc_cm3(FMul(Fin(ne_sw), g[i]))], 0)
    ELSE Error("NotImplementedError", 0)

\* SolarWindDispersion.d_dm_d_ne_sw
d_dm_d_ne_sw(swm, t) ==
    IF swm_regime_implemented(swm)
    THEN Vector(solar_wind_geometry(t), 0)
    ELSE Error("NotImplementedError", 0)

\* Dispersion.dispersion_time_delay at one observation: DMconst * DM / freq^2
dispersion_time_delay(dm, f) == FDiv(FMul(Fin(DMconst), dm), Fin(f * f))

\* Dispersion.dispersion_type_delay: the DM of the component turned into a
\* delay with the barycentric frequency, or the raw column when unavailable
dispersion_type_delay(swm, ne_sw, t, bary) ==
    LET dm == solar_wind_dm(swm, ne_sw, t)
        w == IF bary THEN 0 ELSE 1
    IN IF dm.kind = "error" THEN Error(dm.err, w)
       ELSE Vector([i \in 1..Len(t) |->
                       dispersion_time_delay(dm.val[i],
                           IF bary THEN t[i].bfreq ELSE t[i].freq)], w)

\* SolarWindDispersion.solar_wind_delay
solar_wind_delay(swm, ne_sw, t, bary) == dispersion_type_delay(swm, ne_sw, t, bary)

\* Dispersion.d_delay_d_dmparam(toas, "NE_SW")
d_delay_d_dmparam(swm, t) ==
    LET d == d_dm_d_ne_sw(swm, t)
    IN IF d.kind = "error" THEN d
       ELSE Vector([i \in 1..Len(t) |-> dispersion_time_delay(d.val[i], t[i].bfreq)], 0)

\* the test bfreq < 1.0 * u.MHz
below_cutoff_inclusive(f) == f <= CutoffFreq
below_cutoff(f) == f < CutoffFreq

\* the objects d_delay_d_ne_sw can reach
SWHeap == [SWM |-> SWM, NE_SW |-> NE_SW, toas |-> toas, bary_avail |-> bary_avail]

\* SolarWindDispersion.d_delay_d_ne_sw: the returned value and the objects as
\* it leaves them.  The except branch reads the unbound name tbl.
d_delay_d_ne_sw(h) ==
    IF ~h.bary_avail
    THEN [ret |-> Error("NameError", 1), heap |-> h]
    ELSE LET deriv == d_delay_d_dmparam(h.SWM, h.toas)
         IN IF deriv.kind = "error" THEN [ret |-> deriv, heap |-> h]
            ELSE [ret |-> Vector([i \in 1..Len(h.toas) |->
                                     IF below_cutoff(h.toas[i].bfreq) THEN Zero
                                     ELSE deriv.val[i]], 0),
                  heap |-> h]

\* --------------------------------------------------- derivative registries

DerivNames == {"NE_SW", "DM"}
NoDerivs == [n \in DerivNames |-> "none"]

\* register_deriv_funcs / register_dm_deriv_funcs: insert fn under name,
\* rejecting a name that already has a callable
register(reg, name, fn) ==
    IF reg[name] = "none"
    THEN [reg |-> [reg EXCEPT ![name] = fn], err |-> ""]
    ELSE [reg |-> reg, err |-> "DuplicateRegistration"]

\* a variant that stores its callables into the registries directly
sw_setup_overwrite(dm_reg, d_reg) ==
    [dm |-> [dm_reg EXCEPT !["NE_SW"] = "d_dm_d_ne_sw"],
     d |-> [d_reg EXCEPT !["NE_SW"] = "d_delay_d_ne_sw"], err |-> ""]
\* SolarWindDispersion.setup: the registries as it leaves them, and the error
\* it ends in ("" for none)
sw_setup(dm_reg, d_reg) ==
    LET a == register(dm_reg, "NE_SW", "d_dm_d_ne_sw")
    IN IF a.err # "" THEN [dm |-> dm_reg, d |-> d_reg, err |-> a.err]
       ELSE LET b == register(d_reg, "NE_SW", "d_delay_d_ne_sw")
            IN [dm |-> a.reg, d |-> b.reg, err |-> b.err]

\* ------------------------------------------------------------------- state

SWMValues == {0, 1}
NEValues == {0, 2}

NoPipelines == [L2 |-> <<>>, dm_value_funcs |-> <<>>, delay_funcs_component |-> <<>>]

InPipeline(stage, fn) == \E k \in 1..Len(pipelines[stage]) : pipelines[stage][k] = fn

InRegister(name) == \E k \in 1..Len(param_register) : param_register[k] = name

\* JumpDelay.__init__: the JUMP mask parameter and the L2 pipeline entry
JumpDelay_init ==
    /\ component = "JumpDelay"
    /\ param_register = <<JUMP1>>
    /\ mask_params = (JUMP1 :> MaskParam(0, <<3, 3>>))
    /\ pipelines = [NoPipelines EXCEPT !.L2 = <<"jump_delay">>]
    /\ SWM = 0
    /\ NE_SW = 0

\* SolarWindDispersion.__init__: NE_SW and SWM default to 0.0, the DM and
\* delay functions are appended to the pipelines
SolarWindDispersion_init ==
    /\ component = "SolarWindDispersion"
    /\ param_register = <<>>
    /\ mask_params = <<>>
    /\ pipelines = [NoPipelines EXCEPT !.dm_value_funcs = <<"solar_wind_dm">>,
                                       !.delay_funcs_component = <<"solar_wind_delay">>]
    /\ SWM = 0
    /\ NE_SW = 0

Init ==
    /\ JumpDelay_init \/ SolarWindDispersion_init
    /\ jumps = <<>>
    /\ hasJumps = FALSE
    /\ regAtSetup = <<>>
    /\ phase = "constructed"
    /\ toas = <<>>
    /\ bary_avail = TRUE
    /\ deriv_funcs = NoDerivs
    /\ dm_deriv_funcs = NoDerivs
    /\ result = NoResult
    /\ lastOp = "__init__"
    /\ lastArg = ""
    /\ streak = 1

Hist(op, arg) ==
    /\ lastOp' = op
    /\ lastArg' = arg
    /\ streak' = IF lastOp = op /\ lastArg = arg THEN 2 ELSE 1

JumpVars == <<param_register, mask_params, jumps, hasJumps, regAtSetup>>
SWVars == <<SWM, NE_SW, bary_avail, deriv_funcs, dm_deriv_funcs>>

\* ------------------------------------------------------- JumpDelay actions

\* add_param of a mask parameter (names are unique attributes of the model)
AddParam(name, v, rng) ==
    /\ component = "JumpDelay"
    /\ ~InRegister(name)
    /\ param_register' = Append(param_register, name)
    /\ mask_params' = (name :> (IF startswith(name, JUMP) THEN MaskParam(v, rng)
                                ELSE OtherParam)) @@ mask_params
    /\ result' = NoResult
    /\ Hist("add_param", name)
    /\ UNCHANGED <<component, jumps, hasJumps, regAtSetup, phase, pipelines, toas>>
    /\ UNCHANGED SWVars

\* a parameter's value and selection rule set from outside (parfile, fitter)
SetParam(name, v, rng) ==
    /\ component = "JumpDelay"
    /\ InRegister(name)
    /\ startswith(name, JUMP)
    /\ mask_params' = [mask_params EXCEPT ![name] = MaskParam(v, rng)]
    /\ result' = NoResult
    /\ Hist("set_param", name)
    /\ UNCHANGED <<component, param_register, jumps, hasJumps, regAtSetup, phase,
                   pipelines, toas>>
    /\ UNCHANGED SWVars

JumpSetup ==
    /\ component = "JumpDelay"
    /\ jumps' = setup_jumps(jumps, hasJumps, param_register)
    /\ hasJumps' = TRUE
    /\ regAtSetup' = param_register
    /\ phase' = "setup"
    /\ result' = NoResult
    /\ Hist("setup", "")
    /\ UNCHANGED <<component, param_register, mask_params, pipelines, toas>>
    /\ UNCHANGED SWVars

\* the caller builds the batch: one more observation, or a fresh empty batch
AppendJumpTOA(o) ==
    /\ component = "JumpDelay"
    /\ Len(toas) < MaxN
    /\ toas' = Append(toas, o)
    /\ result' = NoResult
    /\ Hist("load_toas", "")
    /\ UNCHANGED <<component, phase, pipelines>>
    /\ UNCHANGED JumpVars
    /\ UNCHANGED SWVars

ResetTOAs ==
    /\ toas # <<>>
    /\ toas' = <<>>
    /\ result' = NoResult
    /\ Hist("load_toas", "")
    /\ UNCHANGED <<component, phase, pipelines>>
    /\ UNCHANGED JumpVars
    /\ UNCHANGED SWVars

\* the pipeline entry jump_delay evaluated on the batch
CallJumpDelay ==
    /\ component = "JumpDelay"
    /\ InPipeline("L2", "jump_delay")
    /\ LET r == jump_delay(JumpHeap)
       IN /\ result' = r.ret
          /\ jumps' = r.heap.jumps
          /\ hasJumps' = r.heap.hasJumps
          /\ mask_params' = r.heap.mask_params
          /\ toas' = r.heap.toas
    /\ Hist("jump_delay", "")
    /\ UNCHANGED <<component, param_register, regAtSetup, phase, pipelines>>
    /\ UNCHANGED SWVars

\* --------------------------------------------- SolarWindDispersion actions

SetSWM(v) ==
    /\ component = "SolarWindDispersion"
    /\ SWM' = v
    /\ result' = NoResult
    /\ Hist("set_param", "SWM")
    /\ UNCHANGED <<component, phase, pipelines, toas, NE_SW, bary_avail,
                   deriv_funcs, dm_deriv_funcs>>
    /\ UNCHANGED JumpVars

SetNE_SW(v) ==
    /\ component = "SolarWindDispersion"
    /\ NE_SW' = v
    /\ result' = NoResult
    /\ Hist("set_param", "NE_SW")
    /\ UNCHANGED <<component, phase, pipelines, toas, SWM, bary_avail,
                   deriv_funcs, dm_deriv_funcs>>
    /\ UNCHANGED JumpVars

\* the astrometry that provides barycentric_radio_freq comes or goes
SetBary(b) ==
    /\ component = "SolarWindDispersion"
    /\ bary_avail' = b
    /\ result' = NoResult
    /\ Hist("set_bary", "")
    /\ UNCHANGED <<component, phase, pipelines, toas, SWM, NE_SW,
                   deriv_funcs, dm_deriv_funcs>>
    /\ UNCHANGED JumpVars

SWSetup ==
    /\ component = "SolarWindDispersion"
    /\ LET r == sw_setup(dm_deriv_funcs, deriv_funcs)
       IN /\ dm_deriv_funcs' = r.dm
          /\ deriv_funcs' = r.d
          /\ result' = IF r.err = "" THEN NoResult ELSE Error(r.err, 0)
    /\ phase' = "setup"
    /\ Hist("setup", "NE_SW")
    /\ UNCHANGED <<component, pipelines, toas, SWM, NE_SW, bary_avail>>
    /\ UNCHANGED JumpVars

\* another component registers its delay derivative under name
RegisterOther(name) ==
    /\ component = "SolarWindDispersion"
    /\ LET r == register(deriv_funcs, name, "other")
       IN /\ deriv_funcs' = r.reg
          /\ result' = IF r.err = "" THEN NoResult ELSE Error(r.err, 0)
    /\ Hist("register_deriv_funcs", name)
    /\ UNCHANGED <<component, phase, pipelines, toas, SWM, NE_SW, bary_avail,
                   dm_deriv_funcs>>
    /\ UNCHANGED JumpVars

AppendSWTOA(o) ==
    /\ component = "SolarWindDispersion"
    /\ Len(toas) < MaxN
    /\ toas' = Append(toas, o)
    /\ result' = NoResult
    /\ Hist("load_toas", "")
    /\ UNCHANGED <<component, phase, pipelines>>
    /\ UNCHANGED JumpVars
    /\ UNCHANGED SWVars

CallSolarWindDm ==
    /\ component = "SolarWindDispersion"
    /\ InPipeline("dm_value_funcs", "solar_wind_dm")
    /\ result' = solar_wind_dm(SWM, NE_SW, toas)
    /\ Hist("solar_wind_dm", "")
    /\ UNCHANGED <<component, phase, pipelines, toas>>
    /\ UNCHANGED JumpVars
    /\ UNCHANGED SWVars

CallSolarWindDelay ==
    /\ component = "SolarWindDispersion"
    /\ InPipeline("delay_funcs_component", "solar_wind_delay")
    /\ result' = solar_wind_delay(SWM, NE_SW, toas, bary_avail)
    /\ Hist("solar_wind_delay", "")
    /\ UNCHANGED <<component, phase, pipelines, toas>>
    /\ UNCHANGED JumpVars
    /\ UNCHANGED SWVars

CallDDmDNeSw ==
    /\ component = "SolarWindDispersion"
    /\ result' = d_dm_d_ne_sw(SWM, toas)
    /\ Hist("d_dm_d_ne_sw", "")
    /\ UNCHANGED <<component, phase, pipelines, toas>>
    /\ UNCHANGED JumpVars
    /\ UNCHANGED SWVars

CallDDelayDNeSw ==
    /\ component = "SolarWindDispersion"
    /\ LET r == d_delay_d_ne_sw(SWHeap)
       IN /\ result' = r.ret
          /\ SWM' = r.heap.SWM
          /\ NE_SW' = r.heap.NE_SW
          /\ toas' = r.heap.toas
          /\ bary_avail' = r.heap.bary_avail
    /\ Hist("d_delay_d_ne_sw", "")
    /\ UNCHANGED <<component, phase, pipelines, deriv_funcs, dm_deriv_funcs>>
    /\ UNCHANGED JumpVars

Next ==
    \/ \E name \in MaskNames, v \in JumpValues, rng \in Ranges : AddParam(name, v, rng)
    \/ \E name \in MaskNames, v \in JumpValues, rng \in Ranges : SetParam(name, v, rng)
    \/ JumpSetup
    \/ \E o \in JumpObs : AppendJumpTOA(o)
    \/ ResetTOAs
    \/ CallJumpDelay
    \/ \E v \in SWMValues : SetSWM(v)
    \/ \E v \in NEValues : SetNE_SW(v)
    \/ \E b \in BOOLEAN : SetBary(b)
    \/ SWSetup
    \/ \E name \in DerivNames : RegisterOther(name)
    \/ \E o \in SWObs : AppendSWTOA(o)
    \/ CallSolarWindDm
    \/ CallSolarWindDelay
    \/ CallDDmDNeSw
    \/ CallDDelayDNeSw

Spec == Init /\ [][Next]_vars

\* ------------------------------------------------------------------ claims

IsJumpName(n) == startswith(n, JUMP)

\* whether the k-th discovered jump selects observation i
Selects(k, i) == i \in select_toa_mask(mask_params[jumps[k]], toas)

\* the sum of the values of the discovered jumps k.. that select observation i
RECURSIVE SelectedSum(_, _)
SelectedSum(k, i) ==
    IF k > Len(jumps) THEN 0
    ELSE (IF Selects(k, i) THEN mask_params[jumps[k]].value ELSE 0)
         + SelectedSum(k + 1, i)

JumpDelayReturned == lastOp = "jump_delay" /\ hasJumps

\* C1: jump_delay returns a vector of length N whose entry i is minus the sum
\* of the values of all discovered jump parameters whose mask selects
\* observation i (overlapping selections add up), and exactly 0 at every
\* index selected by no parameter.
C1_JumpDelayIsMinusSelectedSum ==
    JumpDelayReturned =>
        /\ result.kind = "vector"
        /\ Len(result.val) = Len(toas)
        /\ \A i \in 1..Len(toas) :
              /\ result.val[i] = -SelectedSum(1, i)
              /\ (\A k \in 1..Len(jumps) : ~Selects(k, i)) => result.val[i] = 0

\* two overlapping jumps of non-zero values a and b give -(a+b) at an index,
\* and another index of the same batch is selected by no jump and is 0
C1_Witness ==
    /\ JumpDelayReturned
    /\ result.kind = "vector"
    /\ Len(jumps) = 2
    /\ \E i, j \in 1..Len(toas) :
          /\ Selects(1, i) /\ Selects(2, i)
          /\ mask_params[jumps[1]].value # 0 /\ mask_params[jumps[2]].value # 0
          /\ result.val[i] = -(mask_params[jumps[1]].value + mask_params[jumps[2]].value)
          /\ ~Selects(1, j) /\ ~Selects(2, j)
          /\ result.val[j] = 0

SWEvalOps == {"solar_wind_dm", "solar_wind_delay", "d_dm_d_ne_sw", "d_delay_d_ne_sw"}

\* C2: whenever SWM is not 0, each of solar_wind_dm, solar_wind_delay,
\* d_dm_d_ne_sw and d_delay_d_ne_sw ends in NotImplementedError and in no
\* other error, whether or not the barycentric frequency is available.
C2_UnimplementedRegimeAlwaysRaises ==
    (lastOp \in SWEvalOps /\ SWM # 0) =>
        (result.kind = "error" /\ result.err = "NotImplementedError")

\* C3: with SWM = 0 and the barycentric frequency unavailable, d_delay_d_ne_sw
\* does not fail: it warns exactly once and returns a vector of length N.
C3_FallbackReturnsVector ==
    (lastOp = "d_delay_d_ne_sw" /\ SWM = 0 /\ ~bary_avail) =>
        /\ result.kind = "vector"
        /\ result.warned = 1
        /\ Len(result.val) = Len(toas)

\* the frequency column solar_wind_delay divides by
DelayFreq(i) == IF bary_avail THEN toas[i].bfreq ELSE toas[i].freq

\* C4: with SWM = 0, the vector d_delay_d_ne_sw returns has entry i exactly 0
\* where the (barycentric) frequency is below 1 MHz and the entry of
\* d_delay_d_dmparam(toas, "NE_SW") elsewhere; solar_wind_delay on the same
\* batch returns the dispersion delay unmodified at every index.
C4_CutoffOnlyOnDerivative ==
    /\ (lastOp = "d_delay_d_ne_sw" /\ SWM = 0 /\ result.kind = "vector") =>
          /\ Len(result.val) = Len(toas)
          /\ \A i \in 1..Len(toas) :
                result.val[i] = IF toas[i].bfreq < CutoffFreq THEN Zero
                                ELSE d_delay_d_dmparam(SWM, toas).val[i]
    /\ (lastOp = "solar_wind_delay" /\ SWM = 0) =>
          /\ result.kind = "vector"
          /\ Len(result.val) = Len(toas)
          /\ \A i \in 1..Len(toas) :
                result.val[i] =
                    dispersion_time_delay(solar_wind_dm(SWM, NE_SW, toas).val[i],
                                          DelayFreq(i))

\* a returned derivative with an entry forced to 0 below 1 MHz whose
\* uncut value is not 0, and an entry at exactly 1 MHz left as computed
C4_Witness ==
    /\ lastOp = "d_delay_d_ne_sw" /\ SWM = 0 /\ result.kind = "vector"
    /\ \E i, j \in 1..Len(toas) :
          /\ toas[i].bfreq < CutoffFreq
          /\ result.val[i] = Zero
          /\ d_delay_d_dmparam(SWM, toas).val[i] # Zero
          /\ toas[j].bfreq = CutoffFreq
          /\ result.val[j] # Zero
          /\ result.val[j].k = "fin"

RegistrationOps == {"setup", "register_deriv_funcs"}

Kept(reg, reg2) == \A n \in DerivNames : reg[n] # "none" => reg2[n] = reg[n]

NoJumpSelects == \A k \in 1..Len(jumps) : select_toa_mask(mask_params[jumps[k]], toas) = {}

\* C6: for a batch of any size N, N = 0 included, if no discovered jump
\* parameter's mask selects any observation then jump_delay raises nothing
\* and returns the all-zero vector of length N.
C6_NoMatchGivesZeros ==
    (JumpDelayReturned /\ NoJumpSelects) =>
        result = Vector([i \in 1..Len(toas) |-> 0], 0)

\* a non-empty batch, two discovered jumps of non-zero value, none matching
C6_Witness ==
    /\ JumpDelayReturned /\ NoJumpSelects
    /\ Len(toas) >= 2 /\ Len(jumps) = 2
    /\ \A k \in 1..Len(jumps) : mask_params[jumps[k]].value # 0
    /\ result.kind = "vector"

\* C7: with SWM = 0 and NE_SW = 0, solar_wind_dm returns the all-zero vector
\* of length N for every batch, the degenerate geometry (theta = 0 or pi)
\* included.
C7_ZeroAmplitudeGivesZeroDM ==
    (lastOp = "solar_wind_dm" /\ SWM = 0 /\ NE_SW = 0) =>
        result = Vector([i \in 1..Len(toas) |-> Zero], 0)

InSeq(s, x) == \E k \in 1..Len(s) : s[k] = x

\* C8: once setup has run, self.jumps is exactly the mask-parameter names
\* that were in the registry at the last setup and begin with "JUMP", in
\* registry order, each once (right after a setup: those of the current
\* registry); a parameter added since is not in the list.
C8_JumpsAreRegistrySnapshot ==
    hasJumps =>
        /\ jumps = SelectSeq(regAtSetup, IsJumpName)
        /\ \A a, b \in 1..Len(jumps) : a # b => jumps[a] # jumps[b]
        /\ lastOp = "setup" => jumps = SelectSeq(param_register, IsJumpName)
        /\ \A k \in 1..Len(param_register) :
              k > Len(regAtSetup) => ~InSeq(jumps, param_register[k])

\* JUMP2 was added after the last setup with a rule that selects the first
\* observation; jump_delay then returns without its contribution
C8_Witness ==
    /\ JumpDelayReturned
    /\ InSeq(param_register, JUMP2) /\ ~InSeq(jumps, JUMP2)
    /\ InSeq(param_register, EFAC1)
    /\ Len(toas) >= 1
    /\ 1 \in select_toa_mask(mask_params[JUMP2], toas)
    /\ 1 \in select_toa_mask(mask_params[JUMP1], toas)
    /\ result.kind = "vector"
    /\ result.val[1] = -(mask_params[JUMP1].value)

EvalOps == {"jump_delay", "solar_wind_dm", "d_dm_d_ne_sw", "d_delay_d_ne_sw"}

\* C9: an evaluation (jump_delay, solar_wind_dm, d_dm_d_ne_sw,
\* d_delay_d_ne_sw) leaves the batch, every parameter, the discovered jump
\* list, the pipelines and the derivative registries unchanged, and an
\* evaluation that directly follows the same evaluation returns the same.
C9_EvaluationWritesNothing ==
    [][ lastOp' \in EvalOps =>
          /\ UNCHANGED <<toas, mask_params, param_register, jumps, hasJumps, SWM,
                         NE_SW, bary_avail, pipelines, deriv_funcs, dm_deriv_funcs>>
          /\ lastOp = lastOp' => result' = result ]_vars

\* d_delay_d_ne_sw evaluated twice in a row, an entry zeroed by the cutoff
C9_Witness ==
    /\ lastOp = "d_delay_d_ne_sw" /\ streak = 2
    /\ result.kind = "vector"
    /\ \E i \in 1..Len(toas) :
          /\ toas[i].bfreq < CutoffFreq
          /\ result.val[i] = Zero
          /\ d_delay_d_dmparam(SWM, toas).val[i].k = "inf"

\* C10 as stated: whenever jump_delay is in the delay pipeline the discovered
\* jump list is defined, and evaluating returns a vector of length N.
C10_JumpsDefinedWheneverInPipeline ==
    (component = "JumpDelay" /\ InPipeline("L2", "jump_delay")) =>
        /\ hasJumps
        /\ lastOp = "jump_delay" =>
              (result.kind = "vector" /\ Len(result.val) = Len(toas))

\* C10 amended: the discovered jump list is defined exactly from the first
\* setup on; from then on evaluating jump_delay returns a vector of length N,
\* and before it evaluating fails with AttributeError.
C10_JumpsDefinedFromFirstSetup ==
    component = "JumpDelay" =>
        /\ InPipeline("L2", "jump_delay")
        /\ hasJumps <=> phase = "setup"
        /\ lastOp = "jump_delay" =>
              IF phase = "setup"
              THEN result.kind = "vector" /\ Len(result.val) = Len(toas)
              ELSE result = Error("AttributeError", 0)

\* jump_delay evaluated after setup on a batch longer than the jump list
C10_Witness ==
    /\ component = "JumpDelay"
    /\ lastOp = "jump_delay" /\ phase = "setup"
    /\ Len(jumps) = 1 /\ Len(toas) = 2
    /\ result.kind = "vector" /\ Len(result.val) = 2

====
